---- MODULE Spec2Model ----
(***************************************************************************)
(* Detection evaluation of train/sunrgbd_eval/eval_det.py:                 *)
(*   voc_ap        average precision from a recall and a precision array   *)
(*   eval_det_cls  greedy matching of one class's detections to its        *)
(*                 ground-truth boxes, in decreasing confidence            *)
(*   eval_det      the loop over the classes of the ground truth           *)
(*                                                                         *)
(* recall, precision and AP are numpy float64 values.  They are modelled   *)
(* as IEEE-754 binary64 numbers: a 53-bit significand held in 14-bit       *)
(* limbs and a binary exponent, every operation rounded to nearest, ties   *)
(* to even.  The values of this program stay far inside the normal range,  *)
(* so subnormals and overflow are left out.                                *)
(***************************************************************************)
EXTENDS Integers, Sequences, FiniteSets, TLC

\* ------------------------------------------------------------------------
\* Bounds of the model
\* ------------------------------------------------------------------------
\* most detections of one class, all its images together
MaxDet == 2
\* most ground-truth boxes of one class, all its images together
MaxGT == 2
\* the same two for a class evaluated twice in a row
TwiceDet == 2
TwiceGT == 1
\* and for each class of eval_det
DrvDet == 1
DrvGT == 1
\* longest recall / precision array handed to voc_ap on its own
APMaxLen == 2
\* recall and precision values handed to voc_ap on its own are k / APDen
APDen == 2

\* ------------------------------------------------------------------------
\* State
\* ------------------------------------------------------------------------
VARIABLES
  pred, gt, ovthresh, use_07_metric,  \* the arguments of eval_det_cls
  iouv,            \* the IoU function, where it is fixed before the call
  pc, err,         \* where the program is; the exception raised, or "none"
  class_recs, npos, image_ids, confidence, sorted_ind, d, tp, fp, ovmax, jmax,
                   \* the locals of eval_det_cls (d: detections done)
  hist,            \* per detection done: its image, the branch it took and
                   \* the box index it read the matched flag of (0: none)
  last,            \* the IoU values of the last detection done, and whether
                   \* its scan bound jmax
  rec, prec, ap,   \* the arrays and the AP (of voc_ap, of eval_det_cls)
  returned,        \* what the calls of eval_det_cls returned so far
  pred_all, gt_all, iou_all, todo, rec_all, prec_all, ap_all
                   \* eval_det: its arguments, the classes its loop has
                   \* not reached yet, and its three result maps

argVars == <<pred, gt, ovthresh, use_07_metric, iouv>>
locVars == <<class_recs, npos, image_ids, confidence, sorted_ind, d, tp, fp,
             ovmax, jmax>>
obsVars == <<hist, last>>
outVars == <<rec, prec, ap>>
drvVars == <<pred_all, gt_all, iou_all, todo, rec_all, prec_all, ap_all>>
vars == <<argVars, pc, err, locVars, obsVars, outVars, returned, drvVars>>

\* ------------------------------------------------------------------------
\* Natural numbers of any size: little-endian sequences of limbs
\* ------------------------------------------------------------------------
\* bits per limb: products of two limbs stay below 2^31
LimbBits == 14
Base == 2 ^ LimbBits

RECURSIVE BStrip(_)
BStrip(a) ==
  IF a = <<>> THEN <<>>
  ELSE IF a[Len(a)] = 0 THEN BStrip(SubSeq(a, 1, Len(a) - 1)) ELSE a

RECURSIVE BAddC(_, _, _)
BAddC(a, b, c) ==
  IF a = <<>> /\ b = <<>> THEN (IF c = 0 THEN <<>> ELSE <<c>>)
  ELSE LET x == (IF a = <<>> THEN 0 ELSE a[1]) + (IF b = <<>> THEN 0 ELSE b[1]) + c
       IN  <<x % Base>> \o BAddC(IF a = <<>> THEN <<>> ELSE Tail(a),
                                 IF b = <<>> THEN <<>> ELSE Tail(b), x \div Base)

BAdd(a, b) == BStrip(BAddC(a, b, 0))

\* a - b for a >= b
RECURSIVE BSubB(_, _, _)
BSubB(a, b, c) ==
  IF a = <<>> THEN <<>>
  ELSE LET x == a[1] - (IF b = <<>> THEN 0 ELSE b[1]) - c
       IN  <<x % Base>> \o BSubB(Tail(a), IF b = <<>> THEN <<>> ELSE Tail(b),
                                 IF x < 0 THEN 1 ELSE 0)

BSub(a, b) == BStrip(BSubB(a, b, 0))

\* a * k + c for a limb-sized k
RECURSIVE BMulSmallC(_, _, _)
BMulSmallC(a, k, c) ==
  IF a = <<>> THEN (IF c = 0 THEN <<>> ELSE <<c>>)
  ELSE LET x == a[1] * k + c
       IN  <<x % Base>> \o BMulSmallC(Tail(a), k, x \div Base)

RECURSIVE BMul(_, _)
BMul(a, b) ==
  IF b = <<>> \/ a = <<>> THEN <<>>
  ELSE BAdd(BMulSmallC(a, b[1], 0), <<0>> \o BMul(a, Tail(b)))

\* quotient and remainder of a by a small divisor dv (0 < dv < 2^16)
RECURSIVE BDivSmall(_, _)
BDivSmall(a, dv) ==
  IF a = <<>> THEN [q |-> <<>>, r |-> 0]
  ELSE LET hi == BDivSmall(Tail(a), dv)
           x  == hi.r * Base + a[1]
       IN  [q |-> <<x \div dv>> \o hi.q, r |-> x % dv]

Zeros(n) == [i \in 1..n |-> 0]

\* a * 2^n
BShl(a, n) ==
  IF a = <<>> THEN <<>>
  ELSE BStrip(Zeros(n \div LimbBits) \o BMulSmallC(a, 2 ^ (n % LimbBits), 0))

\* floor(a / 2^n)
BShr(a, n) ==
  IF n \div LimbBits >= Len(a) THEN <<>>
  ELSE BStrip(BDivSmall(SubSeq(a, (n \div LimbBits) + 1, Len(a)), 2 ^ (n % LimbBits)).q)

\* bit k of a (bit 0 is the lowest)
BBit(a, k) ==
  IF (k \div LimbBits) + 1 > Len(a) THEN 0
  ELSE (a[(k \div LimbBits) + 1] \div (2 ^ (k % LimbBits))) % 2

\* a mod 2^k # 0
BLowNonzero(a, k) ==
  \/ \E i \in 1..Len(a) : i <= k \div LimbBits /\ a[i] # 0
  \/ /\ (k \div LimbBits) + 1 <= Len(a)
     /\ a[(k \div LimbBits) + 1] % (2 ^ (k % LimbBits)) # 0

\* number of bits of a stripped, non-zero a
BBitLen(a) ==
  (Len(a) - 1) * LimbBits
    + CHOOSE n \in 1..LimbBits : (a[Len(a)] \div (2 ^ (n - 1))) = 1

\* number of trailing zero bits of a stripped, non-zero a
RECURSIVE BTrailingZeros(_)
BTrailingZeros(a) ==
  IF a[1] = 0 THEN LimbBits + BTrailingZeros(Tail(a))
  ELSE CHOOSE n \in 0..(LimbBits - 1) : a[1] % (2 ^ (n + 1)) = 2 ^ n

\* -1, 0, 1 as a < b, a = b, a > b (a, b stripped)
RECURSIVE BCmp(_, _)
BCmp(a, b) ==
  IF Len(a) # Len(b) THEN (IF Len(a) < Len(b) THEN -1 ELSE 1)
  ELSE IF a = <<>> THEN 0
  ELSE IF a[Len(a)] # b[Len(b)] THEN (IF a[Len(a)] < b[Len(b)] THEN -1 ELSE 1)
  ELSE BCmp(SubSeq(a, 1, Len(a) - 1), SubSeq(b, 1, Len(b) - 1))

RECURSIVE BFromInt(_)
BFromInt(n) == IF n = 0 THEN <<>> ELSE <<n % Base>> \o BFromInt(n \div Base)

\* ------------------------------------------------------------------------
\* float64: k = "fin" is m * 2^e with m odd (or m = <<>>, e = 0 for 0.0);
\* "nan" and "inf" are the two special values division by zero produces
\* ------------------------------------------------------------------------
\* significand bits of float64
Precision == 53
\* extra quotient bits of a division, enough for a guard bit and more
DivShift == 84

FZero == [k |-> "fin", m |-> <<>>, e |-> 0]
FNaN  == [k |-> "nan", m |-> <<>>, e |-> 0]
FInf  == [k |-> "inf", m |-> <<>>, e |-> 0]

FCanon(n, e) ==
  IF n = <<>> THEN FZero
  ELSE LET t == BTrailingZeros(n) IN [k |-> "fin", m |-> BShr(n, t), e |-> e + t]

\* n * 2^e (plus a little more when sticky) rounded to nearest, ties to even
FRound(n0, e, sticky) ==
  LET n == BStrip(n0) IN
  IF n = <<>> THEN FZero
  ELSE LET len == BBitLen(n) IN
       IF len <= Precision THEN FCanon(n, e)
       ELSE LET s    == len - Precision
                q    == BShr(n, s)
                rest == BLowNonzero(n, s - 1) \/ sticky
                up   == BBit(n, s - 1) = 1 /\ (rest \/ BBit(q, 0) = 1)
            IN  FCanon(IF up THEN BAdd(q, <<1>>) ELSE q, e + s)

FFromInt(n) == FCanon(BFromInt(n), 0)
FOne == FFromInt(1)

FMinE(a, b) == IF a.e < b.e THEN a.e ELSE b.e
\* the significand of a at the exponent e <= a.e
FAt(a, e) == BShl(a.m, a.e - e)

\* a < b, a = b, a > b for finite a, b >= 0
FCmpFin(a, b) == BCmp(FAt(a, FMinE(a, b)), FAt(b, FMinE(a, b)))

\* comparisons: any comparison with nan is false, except !=
FGe(a, b) ==
  IF a.k = "nan" \/ b.k = "nan" THEN FALSE
  ELSE IF a.k = "inf" THEN TRUE
  ELSE IF b.k = "inf" THEN FALSE
  ELSE FCmpFin(a, b) >= 0
FLe(a, b) == FGe(b, a)
FNe(a, b) == a.k = "nan" \/ b.k = "nan" \/ a # b

\* np.maximum / np.max: nan wins
FMax(a, b) ==
  IF a.k = "nan" \/ b.k = "nan" THEN FNaN
  ELSE IF FGe(a, b) THEN a ELSE b

FAdd(a, b) ==
  IF a.k = "nan" \/ b.k = "nan" THEN FNaN
  ELSE IF a.k = "inf" \/ b.k = "inf" THEN FInf
  ELSE FRound(BAdd(FAt(a, FMinE(a, b)), FAt(b, FMinE(a, b))), FMinE(a, b), FALSE)

\* a - b; the arrays of this program only subtract a smaller from a larger
FSub(a, b) ==
  IF a.k = "nan" \/ b.k = "nan" \/ b.k = "inf" THEN FNaN
  ELSE IF a.k = "inf" THEN FInf
  ELSE FRound(BSub(FAt(a, FMinE(a, b)), FAt(b, FMinE(a, b))), FMinE(a, b), FALSE)

FMul(a, b) ==
  IF a.k = "nan" \/ b.k = "nan" THEN FNaN
  ELSE IF a.k = "inf" \/ b.k = "inf"
       THEN (IF a = FZero \/ b = FZero THEN FNaN ELSE FInf)
  ELSE FRound(BMul(a.m, b.m), a.e + b.e, FALSE)

\* a / dv for an integer-valued divisor dv >= 0: 0/0 is nan, x/0 is inf
FDivInt(a, dv) ==
  IF a.k = "nan" THEN FNaN
  ELSE IF dv = 0 THEN (IF a = FZero THEN FNaN ELSE FInf)
  ELSE IF a.k = "inf" THEN FInf
  ELSE LET qr == BDivSmall(BShl(a.m, DivShift), dv)
       IN  FRound(qr.q, a.e - DivShift, qr.r # 0)

\* ------------------------------------------------------------------------
\* voc_ap
\* ------------------------------------------------------------------------
\* the literal 0.1: the float64 nearest to 1/10
Tenth == FDivInt(FOne, 10)
\* number of recall thresholds of the VOC07 metric, and the divisor 11.
NPoints == 11
\* np.arange(0., 1.1, 0.1): element i is 0. + i * 0.1, eleven of them
Arange == [i \in 1..NPoints |-> FMul(FFromInt(i - 1), Tenth)]

\* np.max of the elements of a selected by the index set sel (not empty)
FMaxOver(a, sel) ==
  IF \E i \in sel : a[i].k = "nan" THEN FNaN
  ELSE a[CHOOSE i \in sel : \A j \in sel : FGe(a[i], a[j])]

\* one threshold t of the 11 point metric: the p of lines 51-54
Point07(rec_, prec_, t) ==
  LET sel == {i \in 1..Len(rec_) : FGe(rec_[i], t)}
  IN  IF sel = {} THEN FZero ELSE FMaxOver(prec_, sel)

\* the loop of lines 49-55 after its first i thresholds
RECURSIVE Ap07(_, _, _)
Ap07(rec_, prec_, i) ==
  IF i = 0 THEN FZero
  ELSE FAdd(Ap07(rec_, prec_, i - 1),
            FDivInt(Point07(rec_, prec_, Arange[i]), NPoints))

\* a faulty variant of MpreOf: the closing sentinel is 1.
MpreOfOnes(prec_) == <<FZero>> \o prec_ \o <<FOne>>

\* sentinels of lines 59-60
MrecOf(rec_) == <<FZero>> \o rec_ \o <<FOne>>
MpreOf(prec_) == <<FZero>> \o prec_ \o <<FZero>>

\* the precision envelope of lines 63-64, from index i down (1-based)
RECURSIVE Envelope(_, _)
Envelope(mpre, i) ==
  IF i < 2 THEN mpre
  ELSE Envelope([mpre EXCEPT ![i - 1] = FMax(mpre[i - 1], mpre[i])], i - 1)

\* lines 68-71: the terms where recall changes, summed left to right
\* (np.sum adds fewer than 8 terms in order, starting from 0.)
RECURSIVE AreaSum(_, _, _)
AreaSum(mrec, mpre, i) ==
  IF i = 0 THEN FZero
  ELSE IF FNe(mrec[i + 1], mrec[i])
       THEN FAdd(AreaSum(mrec, mpre, i - 1),
                 FMul(FSub(mrec[i + 1], mrec[i]), mpre[i + 1]))
       ELSE AreaSum(mrec, mpre, i - 1)

voc_ap(rec_, prec_, use_07) ==
  IF use_07 THEN Ap07(rec_, prec_, NPoints)
  ELSE LET mrec == MrecOf(rec_)
           mpre == Envelope(MpreOf(prec_), Len(prec_) + 2)
       IN  AreaSum(mrec, mpre, Len(mrec) - 1)

\* ------------------------------------------------------------------------
\* Inputs of eval_det_cls
\* ------------------------------------------------------------------------
\* Boxes are opaque: the code only hands them to the IoU function.  A
\* ground-truth box is its position in its image's list; a predicted box is
\* its position in the flattened prediction list, and the IoU function is
\* the vector of its answers for that box against the boxes of its image.
\* IoU values and the threshold are ordered levels (only > is applied to
\* them): two IoU values, 0 the smaller and 1 the larger, and a threshold
\* that is -inf, negative, or equal to one of the two.  Scores are ordered
\* levels too (only the sort reads them).
ImgIds == {1, 2}
Scores == {1, 2}
IoULevels == {0, 1}
\* ovmax = -np.inf: below every IoU and every finite threshold
NegInf == -1000
Thresholds == {NegInf, -1} \cup IoULevels

RECURSIVE SumOver(_, _)
SumOver(f, S) ==
  IF S = {} THEN 0
  ELSE LET x == CHOOSE y \in S : \A z \in S : y <= z
       IN  f[x] + SumOver(f, S \ {x})

SeqsUpTo(S, n) == UNION {[1..k -> S] : k \in 0..n}

\* gt: {img_id: [bbox]}, here {img_id: number of boxes}, for images imgs
GtMaps(imgs, maxGT) ==
  {g \in UNION {[S -> 0..maxGT] : S \in SUBSET imgs} : SumOver(g, DOMAIN g) <= maxGT}

\* pred: {img_id: [(bbox, score)]}, here {img_id: [score]}; the keys are
\* visited in increasing order (renaming the images makes any insertion
\* order this one)
PredMaps(imgs, maxDet) ==
  {p \in UNION {[S -> SeqsUpTo(Scores, maxDet)] : S \in SUBSET imgs} :
     SumOver([i \in DOMAIN p |-> Len(p[i])], DOMAIN p) <= maxDet}

\* ------------------------------------------------------------------------
\* eval_det_cls
\* ------------------------------------------------------------------------
EmptyRec == [nbox |-> 0, det |-> <<>>]

\* a faulty variant of ClassRecs: lines 111-114 are missing
ClassRecsNoPad(g, p) ==
  [i \in DOMAIN g |-> [nbox |-> g[i], det |-> [j \in 1..g[i] |-> FALSE]]]

\* a faulty variant of ClassRecs: the records of the call before are kept
ClassRecsKept(g, p) ==
  IF DOMAIN class_recs = DOMAIN g \cup DOMAIN p /\ class_recs # <<>>
  THEN class_recs
  ELSE [i \in DOMAIN g \cup DOMAIN p |->
          IF i \in DOMAIN g
          THEN [nbox |-> g[i], det |-> [j \in 1..g[i] |-> FALSE]]
          ELSE EmptyRec]

\* lines 104-114: a record per ground-truth image, an empty one for every
\* other image of the predictions
ClassRecs(g, p) ==
  [i \in DOMAIN g \cup DOMAIN p |->
     IF i \in DOMAIN g THEN [nbox |-> g[i], det |-> [j \in 1..g[i] |-> FALSE]]
     ELSE EmptyRec]

\* lines 105-109
Npos(g) == SumOver(g, DOMAIN g)

\* lines 117-124: the flattened image ids and scores
RECURSIVE FlatIds(_, _)
FlatIds(p, S) ==
  IF S = {} THEN <<>>
  ELSE LET i == CHOOSE y \in S : \A z \in S : y <= z
       IN  [k \in 1..Len(p[i]) |-> i] \o FlatIds(p, S \ {i})

RECURSIVE FlatConf(_, _)
FlatConf(p, S) ==
  IF S = {} THEN <<>>
  ELSE LET i == CHOOSE y \in S : \A z \in S : y <= z
       IN  p[i] \o FlatConf(p, S \ {i})

\* np.argsort(a): the permutations that put a in increasing order (numpy
\* does not say which one it returns when values tie)
ArgSorts(a) ==
  {s \in Permutations(1..Len(a)) :
     \A i \in 1..(Len(a) - 1) : a[s[i]] <= a[s[i + 1]]}

\* a faulty variant of SortedInds: np.argsort(confidence)
SortedIndsAscending(conf) == ArgSorts(conf)

\* line 129: np.argsort(-confidence)
SortedInds(conf) == ArgSorts([i \in 1..Len(conf) |-> 0 - conf[i]])

\* get_iou_cc(bb, BBGT[j]): the answer of the IoU function for box bb
get_iou_cc(ovs, j) == ovs[j]

\* a faulty variant of OvmaxInit: line 141 is missing
OvmaxKept(prev) == prev

\* a faulty variant of IouBeats: >= for >
IouBeatsOrEqual(iou, om) == iou >= om

\* a faulty variant of AboveThresh: >= for >
AboveThreshOrEqual(om, thr) == om >= thr

\* a faulty variant of MarkMatched: line 155 is missing
MarkNothing(det, j) == det

\* line 141
OvmaxInit(prev) == NegInf

\* line 148
IouBeats(iou, om) == iou > om

\* lines 146-150: the scan from box j on
RECURSIVE Scan(_, _, _, _, _)
Scan(ovs, j, om, jm, asg) ==
  IF j > Len(ovs) THEN [ovmax |-> om, jmax |-> jm, assigned |-> asg]
  ELSE IF IouBeats(get_iou_cc(ovs, j), om)
       THEN Scan(ovs, j + 1, get_iou_cc(ovs, j), j, TRUE)
       ELSE Scan(ovs, j + 1, om, jm, asg)

\* line 152
AboveThresh(om, thr) == om > thr

\* line 155
MarkMatched(det, j) == [det EXCEPT ![j] = TRUE]

\* lines 139-159, one detection: R is its image's record, ovs the IoU of
\* its box with each box of R, om and jm the values ovmax and jmax hold
\* from the iteration before (jm = 0: jmax is not bound yet)
MatchStep(R, ovs, om, jm, thr) ==
  LET sc == IF R.nbox > 0 THEN Scan(ovs, 1, OvmaxInit(om), jm, FALSE)
            ELSE [ovmax |-> OvmaxInit(om), jmax |-> jm, assigned |-> FALSE]
      out(e, t, f, dt, b, j) ==
        [err |-> e, tp |-> t, fp |-> f, det |-> dt, branch |-> b, j |-> j,
         ovmax |-> sc.ovmax, jmax |-> sc.jmax, assigned |-> sc.assigned]
  IN  IF AboveThresh(sc.ovmax, thr)
      THEN IF sc.jmax = 0
             THEN out("UnboundLocalError", 0, 0, R.det, "raise", 0)
           ELSE IF sc.jmax > Len(R.det)
             THEN out("IndexError", 0, 0, R.det, "raise", sc.jmax)
           ELSE IF ~R.det[sc.jmax]
             THEN out("none", 1, 0, MarkMatched(R.det, sc.jmax), "tp", sc.jmax)
           ELSE out("none", 0, 1, R.det, "dup", sc.jmax)
      ELSE out("none", 0, 1, R.det, "low", 0)

\* np.cumsum
RECURSIVE CumSum(_)
CumSum(a) ==
  IF a = <<>> THEN <<>>
  ELSE LET c == CumSum(SubSeq(a, 1, Len(a) - 1))
       IN  Append(c, (IF c = <<>> THEN 0 ELSE c[Len(c)]) + a[Len(a)])

\* line 166: tp / np.maximum(tp + fp, eps); tp + fp is a whole number, and
\* eps is the larger only of 0, where tp is 0 too
PrecAt(t, f) == IF t + f = 0 THEN FZero ELSE FDivInt(FFromInt(t), t + f)

\* lines 162-169
CurvesOf(tpA, fpA, np, use_07) ==
  LET ctp == CumSum(tpA)
      cfp == CumSum(fpA)
      r   == [i \in 1..Len(tpA) |-> FDivInt(FFromInt(ctp[i]), np)]
      p   == [i \in 1..Len(tpA) |-> PrecAt(ctp[i], cfp[i])]
  IN  [rec |-> r, prec |-> p, ap |-> voc_ap(r, p, use_07)]

\* CurvesOf, computed once for each pair of tp and fp arrays the loop can
\* leave (x[1][i] is <<tp[i], fp[i]>>), each npos (x[2]) and both metrics
\* (x[3]); @@ makes the table an explicit one
LargestOf(S) == CHOOSE x \in S : \A y \in S : y <= x
CurvesTable ==
  [x \in SeqsUpTo({0, 1} \X {0, 1}, LargestOf({MaxDet, TwiceDet, DrvDet}))
          \X (0..LargestOf({MaxGT, TwiceGT, DrvGT})) \X BOOLEAN |->
     CurvesOf([i \in 1..Len(x[1]) |-> x[1][i][1]],
              [i \in 1..Len(x[1]) |-> x[1][i][2]], x[2], x[3])] @@ <<>>

Curves(tpA, fpA, np, use_07) ==
  CurvesTable[<<[i \in 1..Len(tpA) |-> <<tpA[i], fpA[i]>>], np, use_07>>]

\* lines 138-159 for a detection of image img: the lookup of line 139,
\* then the matching
LoopBody(recs, img, ovs, om, jm, thr) ==
  IF img \notin DOMAIN recs
  THEN [err |-> "KeyError", tp |-> 0, fp |-> 0, det |-> <<>>, branch |-> "raise",
        j |-> 0, ovmax |-> om, jmax |-> jm, assigned |-> FALSE]
  ELSE MatchStep(recs[img], ovs, om, jm, thr)

\* the loop of lines 138-159 from detection k on, as one function
RECURSIVE RunLoop(_, _, _, _, _, _, _, _, _, _)
RunLoop(recs, ids, inds, iou, thr, k, om, jm, tpA, fpA) ==
  IF k > Len(ids) THEN [err |-> "none", tp |-> tpA, fp |-> fpA]
  ELSE LET r == LoopBody(recs, ids[k], iou[inds[k]], om, jm, thr)
       IN  IF r.err # "none" THEN [err |-> r.err, tp |-> tpA, fp |-> fpA]
           ELSE RunLoop([recs EXCEPT ![ids[k]].det = r.det], ids, inds, iou, thr,
                        k + 1, r.ovmax, r.jmax,
                        [tpA EXCEPT ![k] = r.tp], [fpA EXCEPT ![k] = r.fp])

\* eval_det_cls(pred, gt, ovthresh, use_07_metric) as one function; iou is
\* the IoU function (per flattened detection) and s the outcome of argsort
eval_det_cls(p, g, iou, s, thr, use_07) ==
  LET ids0 == FlatIds(p, DOMAIN p)
      ids  == [k \in 1..Len(ids0) |-> ids0[s[k]]]
      run  == RunLoop(ClassRecs(g, p), ids, s, iou, thr, 1, NegInf, 0,
                      Zeros(Len(ids)), Zeros(Len(ids)))
      c    == Curves(run.tp, run.fp, Npos(g), use_07)
  IN  IF run.err # "none"
      THEN [err |-> run.err, rec |-> <<>>, prec |-> <<>>, ap |-> FZero]
      ELSE [err |-> "none", rec |-> c.rec, prec |-> c.prec, ap |-> c.ap]

NoLast == [ov |-> <<>>, assigned |-> FALSE]

LocalsUnset ==
  /\ class_recs = <<>> /\ npos = 0 /\ image_ids = <<>> /\ confidence = <<>>
  /\ sorted_ind = <<>> /\ d = 0 /\ tp = <<>> /\ fp = <<>>
  /\ ovmax = NegInf /\ jmax = 0
  /\ hist = <<>> /\ last = NoLast

DriverUnset ==
  /\ pred_all = <<>> /\ gt_all = <<>> /\ iou_all = <<>> /\ todo = {}
  /\ rec_all = <<>> /\ prec_all = <<>> /\ ap_all = <<>>

\* number of ground-truth boxes of image i in g
NumGT(g, i) == IF i \in DOMAIN g THEN g[i] ELSE 0

\* the IoU functions for predictions p and ground truth g: per flattened
\* detection, a value per ground-truth box of its image
IouFuns(p, g) ==
  LET ids == FlatIds(p, DOMAIN p)
  IN  {f \in [1..Len(ids) -> SeqsUpTo(IoULevels, Npos(g))] :
         \A k \in 1..Len(ids) : Len(f[k]) = NumGT(g, ids[k])}

\* ------------------------------------------------------------------------
\* eval_det_cls, step by step
\* ------------------------------------------------------------------------
\* lines 103-137.  A repeated call gets from argsort what the first got:
\* the same function on the same array.
Call ==
  /\ pc = "eval_det_cls"
  /\ \E s \in SortedInds(FlatConf(pred, DOMAIN pred)) :
       /\ returned = <<>> \/ s = sorted_ind
       /\ sorted_ind' = s
       /\ image_ids' = [k \in 1..Len(s) |-> FlatIds(pred, DOMAIN pred)[s[k]]]
  /\ class_recs' = ClassRecs(gt, pred)
  /\ npos' = Npos(gt)
  /\ confidence' = FlatConf(pred, DOMAIN pred)
  /\ tp' = Zeros(Len(confidence'))
  /\ fp' = Zeros(Len(confidence'))
  /\ d' = 0 /\ ovmax' = NegInf /\ jmax' = 0
  /\ hist' = <<>> /\ last' = NoLast
  /\ pc' = "loop"
  /\ UNCHANGED <<argVars, err, outVars, returned, drvVars>>

\* lines 138-159 for detection d + 1, the IoU function answering ovs
StepWith(ovs) ==
  LET k == d + 1
      r == LoopBody(class_recs, image_ids[k], ovs, ovmax, jmax, ovthresh)
  IN  /\ pc = "loop" /\ d < Len(image_ids)
      /\ IF r.err # "none"
         THEN /\ pc' = "error" /\ err' = r.err
              /\ UNCHANGED <<locVars, obsVars>>
         ELSE /\ class_recs' = [class_recs EXCEPT ![image_ids[k]].det = r.det]
              /\ tp' = [tp EXCEPT ![k] = r.tp]
              /\ fp' = [fp EXCEPT ![k] = r.fp]
              /\ ovmax' = r.ovmax /\ jmax' = r.jmax
              /\ d' = k
              /\ hist' = Append(hist, [img |-> image_ids[k], branch |-> r.branch,
                                       j |-> r.j])
              /\ last' = [ov |-> ovs, assigned |-> r.assigned]
              /\ UNCHANGED <<pc, err, npos, image_ids, confidence, sorted_ind>>
      /\ UNCHANGED <<argVars, outVars, returned, drvVars>>

\* the IoU function is a black box: any value for each box of the image
Step ==
  /\ pc = "loop" /\ d < Len(image_ids)
  /\ \E ovs \in [1..NumGT(gt, image_ids[d + 1]) -> IoULevels] : StepWith(ovs)

\* the IoU function was fixed with the arguments
StepKnown ==
  /\ pc = "loop" /\ d < Len(image_ids)
  /\ StepWith(iouv[sorted_ind[d + 1]])

\* lines 161-169
Finish ==
  /\ pc = "loop" /\ d = Len(image_ids)
  /\ LET c == Curves(tp, fp, npos, use_07_metric)
     IN  /\ rec' = c.rec /\ prec' = c.prec /\ ap' = c.ap
         /\ returned' = Append(returned, c)
  /\ pc' = "done"
  /\ UNCHANGED <<argVars, err, locVars, obsVars, drvVars>>

\* the caller calls eval_det_cls once more with the same arguments
Again ==
  /\ pc = "done" /\ Len(returned) = 1
  /\ pc' = "eval_det_cls"
  /\ UNCHANGED <<argVars, err, locVars, obsVars, outVars, returned, drvVars>>

Init ==
  /\ pc = "eval_det_cls" /\ err = "none"
  /\ pred \in PredMaps(ImgIds, MaxDet)
  /\ gt \in GtMaps(ImgIds, MaxGT)
  /\ ovthresh \in Thresholds
  /\ use_07_metric \in BOOLEAN
  /\ iouv = <<>>
  /\ LocalsUnset /\ DriverUnset
  /\ rec = <<>> /\ prec = <<>> /\ ap = FZero /\ returned = <<>>

Next == Call \/ Step \/ Finish

Spec == Init /\ [][Next]_vars

\* ------------------------------------------------------------------------
\* Properties of the matching loop (Spec)
\* ------------------------------------------------------------------------
\* the loop has done at least one detection; hist[d] and last are its
InLoop == pc \in {"loop", "done"} /\ d >= 1

\* the score of the k-th detection in sorted order
Conf(k) == confidence[sorted_ind[k]]

\* the largest IoU of a detection (-inf for an image without boxes)
MaxOv(ov) ==
  IF ov = <<>> THEN NegInf ELSE LargestOf({ov[j] : j \in 1..Len(ov)})

\* the lowest index attaining the largest IoU
LowestArgMax(ov) ==
  CHOOSE j \in 1..Len(ov) :
    ov[j] = MaxOv(ov) /\ \A i \in 1..(j - 1) : ov[i] < MaxOv(ov)

\* the detections done so far that are true positives for box j of img
Claimants(img, j) ==
  {k \in 1..d : tp[k] = 1 /\ hist[k].img = img /\ hist[k].j = j}

\* the detections done so far whose best box, above the threshold, is the
\* best box of detection k
SameBest(k) ==
  {i \in 1..d : hist[i].img = hist[k].img /\ hist[i].j = hist[k].j}

FirstOf(S) == CHOOSE x \in S : \A y \in S : x <= y

\* a matched flag is set exactly for the boxes a true positive claimed
FlagsAreClaims ==
  \A img \in DOMAIN class_recs :
    \A j \in 1..Len(class_recs[img].det) :
      class_recs[img].det[j] <=> Claimants(img, j) # {}

NumTP == Cardinality({k \in 1..d : tp[k] = 1})

NumFlags ==
  Cardinality({x \in (DOMAIN class_recs) \X (1..npos) :
                 /\ x[2] <= Len(class_recs[x[1]].det)
                 /\ class_recs[x[1]].det[x[2]]})

\* C2: a detection of an image that the ground truth does not have is a
\* false positive, never a true positive, and the lookup of its record
\* does not raise KeyError, whatever the threshold and the order.
C2_UnknownImageAllFP ==
  /\ err # "KeyError"
  /\ \A k \in 1..d :
       hist[k].img \notin DOMAIN gt
         => tp[k] = 0 /\ fp[k] = 1 /\ hist[k].branch = "low"

\* the loop is over, a detection of an image without ground truth came
\* after a true positive of another image, under a negative threshold
C2_Witness ==
  /\ pc = "done" /\ ovthresh < 0
  /\ \E k \in 1..d :
       /\ hist[k].img \notin DOMAIN gt /\ fp[k] = 1
       /\ \E i \in 1..(k - 1) : tp[i] = 1

\* C3: at every point of the scan each ground-truth box is claimed by at
\* most one true positive, the flags set are exactly the boxes claimed
\* (so none is reset and none is set by another step), and the number of
\* true positives equals the number of flags set and is at most npos.
C3_MatchedOnce ==
  pc \in {"loop", "done"} =>
    /\ FlagsAreClaims
    /\ \A img \in DOMAIN class_recs :
         \A j \in 1..Len(class_recs[img].det) :
           Cardinality(Claimants(img, j)) <= 1
    /\ NumTP = NumFlags
    /\ NumTP <= npos

\* a detection found its best box already claimed and stayed a false
\* positive, while every box of the class is claimed
C3_Witness ==
  /\ pc = "done" /\ NumTP = npos /\ npos >= 1
  /\ \E k \in 1..d : hist[k].branch = "dup" /\ fp[k] = 1

\* C4: a detection is a true positive only if its largest IoU is strictly
\* above the threshold; one whose largest IoU equals the threshold is a
\* false positive and sets no flag.
C4_StrictThreshold ==
  InLoop =>
    /\ tp[d] = 1 => MaxOv(last.ov) > ovthresh
    /\ MaxOv(last.ov) = ovthresh =>
         /\ tp[d] = 0 /\ fp[d] = 1 /\ hist[d].branch = "low"
         /\ FlagsAreClaims

\* a detection whose largest IoU is exactly the threshold was done
C4_Witness ==
  /\ InLoop /\ last.ov # <<>>
  /\ MaxOv(last.ov) = ovthresh /\ fp[d] = 1

\* C5 as stated: a detection that is a false positive because its best
\* box is already matched lost it to a detection of strictly higher
\* confidence, the true positive among those with the same best box.
C5_ClaimedByHigher ==
  pc \in {"loop", "done"} =>
    \A k \in 1..d :
      hist[k].j # 0 =>
        /\ tp[FirstOf(SameBest(k))] = 1
        /\ \A i \in SameBest(k) \ {FirstOf(SameBest(k))} :
             /\ tp[i] = 0 /\ fp[i] = 1 /\ hist[i].branch = "dup"
             /\ Conf(FirstOf(SameBest(k))) > Conf(i)

\* C5: a detection that is a false positive because its best box is
\* already matched lost it to a detection earlier in the sorted order,
\* of confidence at least its own: of the detections with the same best
\* box the first in sorted order is the true positive, all the others
\* are false positives.
C5_ClaimedByEarlier ==
  pc \in {"loop", "done"} =>
    \A k \in 1..d :
      hist[k].j # 0 =>
        /\ tp[FirstOf(SameBest(k))] = 1
        /\ \A i \in SameBest(k) \ {FirstOf(SameBest(k))} :
             /\ tp[i] = 0 /\ fp[i] = 1 /\ hist[i].branch = "dup"
             /\ Conf(FirstOf(SameBest(k))) >= Conf(i)

\* two detections of different scores had the same best box
C5_Witness ==
  /\ pc = "done"
  /\ \E k \in 1..d :
       /\ hist[k].branch = "dup"
       /\ Conf(FirstOf(SameBest(k))) > Conf(k)

\* C6: when several boxes attain the largest IoU, jmax is the lowest of
\* their indices; the detection reads the flag of that box only, and
\* claims that box if it is a true positive.
C6_LowestIndexOnTie ==
  InLoop /\ last.ov # <<>> =>
    /\ jmax = LowestArgMax(last.ov)
    /\ hist[d].j \in {0, LowestArgMax(last.ov)}
    /\ tp[d] = 1 =>
         /\ class_recs[hist[d].img].det[LowestArgMax(last.ov)]
         /\ d \in Claimants(hist[d].img, LowestArgMax(last.ov))

\* the first two boxes tie for the largest IoU and the detection claimed
\* the first
C6_Witness ==
  /\ InLoop /\ Len(last.ov) >= 2
  /\ last.ov[1] = last.ov[2] /\ last.ov[1] = MaxOv(last.ov)
  /\ tp[d] = 1 /\ hist[d].j = 1

\* C10: the branch ovmax > ovthresh is taken only by a detection whose
\* scan bound jmax, to an index of its own image's flags, the index of
\* ovmax; no read of jmax raises UnboundLocalError or IndexError.
C10_JmaxFresh ==
  /\ err \notin {"UnboundLocalError", "IndexError"}
  /\ InLoop /\ hist[d].branch \in {"tp", "dup"} =>
       /\ last.assigned
       /\ hist[d].j = jmax
       /\ jmax \in 1..Len(class_recs[hist[d].img].det)
       /\ last.ov[jmax] = ovmax

\* under a negative threshold, a detection of an image without boxes was
\* done while jmax held the index an earlier detection left
C10_Witness ==
  /\ InLoop /\ d >= 2 /\ ovthresh < 0
  /\ last.ov = <<>> /\ ~last.assigned
  /\ jmax > Len(class_recs[hist[d].img].det)
  /\ hist[d].branch = "low"

\* ------------------------------------------------------------------------
\* voc_ap on its own (SpecAP)
\* ------------------------------------------------------------------------
\* the values k / APDen of [0, 1]
APVals == {FDivInt(FFromInt(k), APDen) : k \in 0..APDen}

\* the valid recall arrays of length n: non-decreasing
RecArrays(n) ==
  {r \in [1..n -> APVals] : \A i \in 1..(n - 1) : FLe(r[i], r[i + 1])}

InitAP ==
  /\ pc = "voc_ap" /\ err = "none"
  /\ \E n \in 0..APMaxLen : rec \in RecArrays(n) /\ prec \in [1..n -> APVals]
  /\ use_07_metric \in BOOLEAN
  /\ ap = FZero
  /\ pred = <<>> /\ gt = <<>> /\ ovthresh = 0 /\ iouv = <<>> /\ returned = <<>>
  /\ LocalsUnset /\ DriverUnset

\* lines 41-72
VocAp ==
  /\ pc = "voc_ap"
  /\ ap' = voc_ap(rec, prec, use_07_metric)
  /\ pc' = "voc_ap_done"
  /\ UNCHANGED <<argVars, err, locVars, obsVars, rec, prec, returned, drvVars>>

NextAP == VocAp

SpecAP == InitAP /\ [][NextAP]_vars

\* C7: for equal-length arrays, recall non-decreasing in [0, 1] and
\* precision in [0, 1], the AP voc_ap returns is a number of [0, 1], in
\* both metrics.
C7_APInUnitInterval ==
  pc = "voc_ap_done" => ap.k = "fin" /\ FGe(ap, FZero) /\ FLe(ap, FOne)

\* C8: voc_ap of empty recall and precision arrays returns 0, in both
\* metrics.
C8_EmptyIsZero ==
  pc = "voc_ap_done" /\ rec = <<>> /\ prec = <<>> => ap = FZero

\* voc_ap returned for empty arrays under the exact metric
C8_Witness ==
  pc = "voc_ap_done" /\ rec = <<>> /\ prec = <<>> /\ ~use_07_metric

\* ------------------------------------------------------------------------
\* eval_det_cls called twice (SpecTwice)
\* ------------------------------------------------------------------------
InitTwice ==
  /\ pc = "eval_det_cls" /\ err = "none"
  /\ pred \in PredMaps(ImgIds, TwiceDet)
  /\ gt \in GtMaps(ImgIds, TwiceGT)
  /\ iouv \in IouFuns(pred, gt)
  /\ ovthresh \in Thresholds
  /\ use_07_metric \in BOOLEAN
  /\ LocalsUnset /\ DriverUnset
  /\ rec = <<>> /\ prec = <<>> /\ ap = FZero /\ returned = <<>>

NextTwice == Call \/ StepKnown \/ Finish \/ Again

SpecTwice == InitTwice /\ [][NextTwice]_vars

\* C9: the second of two calls of eval_det_cls with the same arguments
\* starts its loop with no matched flag set and returns what the first
\* returned.  (pred and gt are only read, lines 106-124: the records and
\* flags are objects of the call, so no action assigns to pred or gt.)
C9_SameTwice ==
  /\ pc = "loop" /\ d = 0 =>
       \A img \in DOMAIN class_recs :
         \A j \in 1..Len(class_recs[img].det) : ~class_recs[img].det[j]
  /\ Len(returned) = 2 => returned[1] = returned[2]

\* both calls returned, and the first had set a matched flag
C9_Witness ==
  /\ Len(returned) = 2 /\ pc = "done"
  /\ \E k \in 1..d : tp[k] = 1

\* ------------------------------------------------------------------------
\* eval_det (SpecDet)
\* ------------------------------------------------------------------------
Classes == {"chair", "table"}
DrvImgs == {1}

\* {classname: map} for the maps of M
ByClass(M) == UNION {[S -> M] : S \in SUBSET Classes}

\* the IoU functions of the classes both maps have
IouAlls(pa, ga) ==
  {f \in [DOMAIN pa \cap DOMAIN ga ->
            SeqsUpTo(SeqsUpTo(IoULevels, DrvGT), DrvDet)] :
     \A c \in DOMAIN pa \cap DOMAIN ga : f[c] \in IouFuns(pa[c], ga[c])}

\* result_dir is a directory the caller names
InitDet ==
  /\ pc = "eval_det" /\ err = "none"
  /\ pred_all \in ByClass(PredMaps(DrvImgs, DrvDet))
  /\ gt_all \in ByClass(GtMaps(DrvImgs, DrvGT))
  /\ iou_all \in IouAlls(pred_all, gt_all)
  /\ ovthresh \in Thresholds
  /\ use_07_metric \in BOOLEAN
  /\ todo = DOMAIN gt_all
  /\ rec_all = <<>> /\ prec_all = <<>> /\ ap_all = <<>>
  /\ pred = <<>> /\ gt = <<>> /\ iouv = <<>> /\ returned = <<>>
  /\ rec = <<>> /\ prec = <<>> /\ ap = FZero
  /\ LocalsUnset

\* a dict with key c set to v
WithKey(m, c, v) == [x \in DOMAIN m \cup {c} |-> IF x = c THEN v ELSE m[x]]

\* lines 206-208 for the class c the loop reaches next (a dict gives its
\* keys in the order of insertion: any order)
EvalDetClass(c) ==
  /\ pc = "eval_det" /\ c \in todo
  /\ IF c \notin DOMAIN pred_all
     THEN /\ pc' = "error" /\ err' = "KeyError"
          /\ UNCHANGED <<todo, rec_all, prec_all, ap_all>>
     ELSE \E s \in SortedInds(FlatConf(pred_all[c], DOMAIN pred_all[c])) :
            LET r == eval_det_cls(pred_all[c], gt_all[c], iou_all[c], s,
                                  ovthresh, use_07_metric)
            IN  IF r.err # "none"
                THEN /\ pc' = "error" /\ err' = r.err
                     /\ UNCHANGED <<todo, rec_all, prec_all, ap_all>>
                ELSE /\ rec_all' = WithKey(rec_all, c, r.rec)
                     /\ prec_all' = WithKey(prec_all, c, r.prec)
                     /\ ap_all' = WithKey(ap_all, c, r.ap)
                     /\ todo' = todo \ {c}
                     /\ UNCHANGED <<pc, err>>
  /\ UNCHANGED <<argVars, locVars, obsVars, outVars, returned,
                 pred_all, gt_all, iou_all>>

\* lines 210-231
ReturnDet ==
  /\ pc = "eval_det" /\ todo = {}
  /\ pc' = "eval_det_done"
  /\ UNCHANGED <<argVars, err, locVars, obsVars, outVars, returned, drvVars>>

NextDet == (\E c \in Classes : EvalDetClass(c)) \/ ReturnDet

SpecDet == InitDet /\ [][NextDet]_vars

\* C1: for a class of the ground truth that the prediction map has no
\* entry for, eval_det does not fail, and returns empty recall and
\* precision and AP 0 for it.
C1_MissingClassTolerated ==
  \A c \in DOMAIN gt_all \ DOMAIN pred_all :
    /\ err = "none"
    /\ pc = "eval_det_done" =>
         /\ c \in DOMAIN ap_all
         /\ rec_all[c] = <<>> /\ prec_all[c] = <<>> /\ ap_all[c] = FZero
====
